---------------------------- MODULE Spec2Model ----------------------------
(***************************************************************************)
(* State-machine model of the FeedBot job processor                        *)
(* (scripts/classes/FeedBotProcessor.ts) together with the collaborators   *)
(* it calls: PromptGenerator.getSkipReason, ModelManager.processRow,       *)
(* OpenRouterModelClient.process and ResultsAggregator.                    *)
(*                                                                         *)
(* Granularity: JavaScript runs every piece of code between two awaits to  *)
(* completion, so one action is one such piece.  The workers of            *)
(* runWithConcurrency are interleaved at their awaits only.                *)
(***************************************************************************)
EXTENDS Integers, Sequences, FiniteSets, TLC

(***************************************************************************)
(* Bounds of the model                                                     *)
(***************************************************************************)
MaxRows == 2
MaxConcurrency == 2
MaxRuns == 2
MaxLogCalls == 3
MaxSegments == 3
MaxTextLen == 4
MaxFraction == 2
MaxMatches == 2
MaxRecords == 3

(***************************************************************************)
(* Program constants                                                       *)
(***************************************************************************)
maxRetries == 3
baseDelayMs == 1000
MaxPrimaryAttempts == 2

\* A name is written as the sequence of its pieces: a piece is one character
\* that encodeURIComponent escapes, or a run of characters it leaves alone
Models == << <<"openai", "/", "gpt-5-mini">> >>
PromptVariations == << <<"checklist-strategy">>, <<"chain-of-thought">> >>

DelayMsChoices == {0, 2000}

\* --limit: not given (<<>>), or given as M (<<M>>); parseArgs takes every
\* integer, 0 included
LimitChoices == {<<>>, <<0>>, <<1>>}

Min(a, b) == IF a < b THEN a ELSE b
Max(a, b) == IF a > b THEN a ELSE b

(***************************************************************************)
(* Input rows (EvaluationRow).  A fingerprint is the hash of the row's     *)
(* canonical key, so a fingerprint fixes the rest of the row.  textClass   *)
(* names which of the skip patterns the row's combined text matches.       *)
(***************************************************************************)
RowPool ==
  { [fingerprint |-> "fp1", error_type |-> "TEST_FAILURE", textClass |-> "plain"],
    [fingerprint |-> "fp2", error_type |-> "TEST_FAILURE", textClass |-> "plain"],
    [fingerprint |-> "fp3", error_type |-> "DEPENDENCY_NOT_MET", textClass |-> "plain"] }

\* Row lists up to the naming of the fingerprints: of the two interchangeable
\* rows fp1 and fp2, fp2 occurs only after fp1
RowLists ==
  { rs \in UNION { [1..n -> RowPool] : n \in 0..MaxRows } :
      \A i \in DOMAIN rs :
         rs[i].fingerprint = "fp2" => \E j \in 1..(i - 1) : rs[j].fingerprint = "fp1" }

getSkipReason_none(row) == "null"

\* PromptGenerator.getSkipReason: the reason string, or "null"
getSkipReason(row) ==
  IF row.error_type = "DEPENDENCY_NOT_MET" THEN "DEPENDENCY_NOT_MET category"
  ELSE IF row.textClass = "dependency_gating" THEN "Dependency gating system message"
  ELSE IF row.textClass = "score_threshold" THEN "Score-threshold gating system message"
  ELSE IF row.textClass = "mutation_zero_hidden" THEN "Mutation 0/5 with hidden hints"
  ELSE IF row.textClass = "instructor_no_detail" THEN "Instructor failure without actionable detail"
  ELSE "null"

(***************************************************************************)
(* Combinations, in the order of the two nested loops of run()             *)
(***************************************************************************)
NumCombos == Len(Models) * Len(PromptVariations)

Combinations ==
  [k \in 1..NumCombos |->
     [model |-> Models[((k - 1) \div Len(PromptVariations)) + 1],
      promptVariation |-> PromptVariations[((k - 1) % Len(PromptVariations)) + 1]]]

\* the string a name stands for
RECURSIVE Text(_)
Text(name) == IF name = <<>> THEN "" ELSE Head(name) \o Text(Tail(name))

\* encodeURIComponent on one piece: letters, digits and - _ . ! ~ * ' ( ) stay,
\* any other character becomes the %XX of its UTF-8 bytes
encodeURIComponent(piece) ==
  IF piece = "/" THEN "%2F"
  ELSE IF piece = ":" THEN "%3A"
  ELSE IF piece = "%" THEN "%25"
  ELSE IF piece = " " THEN "%20"
  ELSE piece

encodeStateSegment(value) ==
  Text([k \in DOMAIN value |-> encodeURIComponent(value[k])])

\* the file name below config.outputDir
getStatePath(model, promptVariation) ==
  "feedbot_progress_m-" \o encodeStateSegment(model) \o "_p-"
     \o encodeStateSegment(promptVariation) \o ".json"

StatePathOf(k) == getStatePath(Combinations[k].model, Combinations[k].promptVariation)

StatePaths == { StatePathOf(k) : k \in 1..NumCombos }

\* ResultsAggregator.getKey
getKey(model, promptVariation) == Text(model) \o "_" \o Text(promptVariation)

StatsKeyOf(k) == getKey(Combinations[k].model, Combinations[k].promptVariation)

(***************************************************************************)
(* State files.  A file on disk is missing, holds text JSON.parse rejects, *)
(* or holds a StateFile document.                                          *)
(***************************************************************************)
EmptyProcessed == [f \in {} |-> 0]

EmptyState == [processed |-> EmptyProcessed]

MissingFile == [kind |-> "missing", processed |-> EmptyProcessed]
CorruptFile == [kind |-> "corrupt", processed |-> EmptyProcessed]

JsonFile(st) == [kind |-> "json", processed |-> st.processed]

\* loadState: "throw" stands for the SyntaxError of JSON.parse
loadState(file) ==
  IF file.kind = "missing" THEN [kind |-> "ok", state |-> EmptyState]
  ELSE IF file.kind = "json" THEN [kind |-> "ok", state |-> [processed |-> file.processed]]
  ELSE [kind |-> "throw", state |-> EmptyState]

\* saveState: the whole in-memory document replaces the file
saveState(st) == JsonFile(st)

isAlreadyProcessed_never(row, st) == FALSE

\* line 182: an entry is an object, so !! of it is true exactly when it exists
isAlreadyProcessed(row, st) == row.fingerprint \in DOMAIN st.processed

StateKey_byType(row) == row.error_type

\* the key of the entry written at line 260
StateKey(row) == row.fingerprint

\* lines 253..259: the entry holds the hint and the timestamp of one result of
\* processRow; it is identified here by the job (run, row index) that got
\* that result
StateEntry(result, job) == [timestamp |-> job]

withEntry_fresh(st, key, entry) == [processed |-> [f \in {key} |-> entry]]

\* line 260
withEntry(st, key, entry) ==
  [processed |-> [f \in (DOMAIN st.processed) \cup {key} |->
                    IF f = key THEN entry ELSE st.processed[f]]]


(***************************************************************************)
(* Provider side.  One chat.send of the SDK either resolves with a message *)
(* whose text is of one of four classes, or rejects with an error.         *)
(*   valid    : JSON.parse gives an object isValidFeedBotPayload accepts   *)
(*   embedded : not such an object itself, but its first balanced {...}    *)
(*              substring is one                                           *)
(*   invalid  : non-blank text with neither property                       *)
(*   empty    : blank text                                                 *)
(* Of an error the model keeps its status property and whether its message *)
(* contains the substring "429".                                           *)
(***************************************************************************)
NoStatus == 0

Content(class) == [kind |-> class, status |-> 200, has429 |-> FALSE]

SdkError(st, h) == [kind |-> "error", status |-> st, has429 |-> h]

\* a rate-limit error whose message names the status, one whose message does
\* not, and an error of another kind
SdkErrors == { SdkError(429, TRUE), SdkError(429, FALSE), SdkError(500, FALSE) }

SdkResponses == { Content(c) : c \in {"valid", "embedded", "invalid", "empty"} } \cup SdkErrors

Sentinel == "{\"status\":\"RETRY\"}"
Payload == "payload"

Returned(content) == [kind |-> "content", content |-> content, status |-> 200, has429 |-> FALSE]
Thrown(err) == [kind |-> "error", content |-> "", status |-> err.status, has429 |-> err.has429]
Undefined == [kind |-> "undefined", content |-> "", status |-> 0, has429 |-> FALSE]

repairToJsonObject_unchecked(repairResponse) ==
  IF repairResponse.kind = "error" THEN Thrown(repairResponse)
  ELSE IF repairResponse.kind = "empty" THEN Undefined
  ELSE Returned(Payload)

\* repairToJsonObject, called with non-blank rawText: one more chat.send
repairToJsonObject(repairResponse) ==
  IF repairResponse.kind = "error" THEN Thrown(repairResponse)
  ELSE IF repairResponse.kind \in {"valid", "embedded"} THEN Returned(Payload)
  ELSE Undefined

\* normalizeJsonWithFallbacks: direct parse, first-object extraction, repair
normalizeJsonWithFallbacks(raw, repairResponse) ==
  IF raw.kind = "empty" THEN Undefined
  ELSE IF raw.kind = "valid" THEN Returned(Payload)
  ELSE IF raw.kind = "embedded" THEN Returned(Payload)
  ELSE repairToJsonObject(repairResponse)

\* one iteration of the loop of OpenRouterModelClient.process
primaryAttempt(response, repairResponse) ==
  IF response.kind = "error" THEN Thrown(response)
  ELSE normalizeJsonWithFallbacks(response, repairResponse)

\* A script lists what the SDK answers to the requests one call of process can
\* send: <<primary 1, repair 1, primary 2, repair 2>>
RECURSIVE processFrom(_, _)
processFrom(script, attempt) ==
  IF attempt >= MaxPrimaryAttempts THEN Returned(Sentinel)
  ELSE LET r == primaryAttempt(script[2 * attempt + 1], script[2 * attempt + 2])
       IN IF r.kind = "undefined" THEN processFrom(script, attempt + 1) ELSE r

\* OpenRouterModelClient.process
process(script) == processFrom(script, 0)

\* the requests of a script that process really sends
RECURSIVE sentFrom(_, _)
sentFrom(script, attempt) ==
  IF attempt >= MaxPrimaryAttempts THEN {}
  ELSE LET p == script[2 * attempt + 1]
           q == script[2 * attempt + 2]
           r == primaryAttempt(p, q)
       IN {2 * attempt + 1}
          \cup (IF p.kind = "invalid" THEN {2 * attempt + 2} ELSE {})
          \cup (IF r.kind = "undefined" THEN sentFrom(script, attempt + 1) ELSE {})

\* scripts up to the answers to requests that are never sent
Scripts ==
  { s \in [1..(2 * MaxPrimaryAttempts) -> SdkResponses] :
      \A p \in (1..(2 * MaxPrimaryAttempts)) \ sentFrom(s, 0) : s[p] = Content("valid") }

\* everything one call of process can do
ProcessOutcomes == { process(s) : s \in Scripts }

\* ModelManager.processRow: a result becomes a ProcessingResult, an error is
\* replaced by new Error("API call failed: " + message), which has no status
processRow(result) ==
  IF result.kind = "content"
  THEN [kind |-> "ok", hint |-> result.content, status |-> NoStatus, has429 |-> FALSE]
  ELSE [kind |-> "error", hint |-> "", status |-> NoStatus, has429 |-> result.has429]

(***************************************************************************)
(* retryWithBackoff                                                        *)
(***************************************************************************)
isRateLimitError_always(error) == TRUE

\* line 111: error?.status === 429 || error?.message?.includes("429")
isRateLimitError(error) == error.status = 429 \/ error.has429

giveUp_early(attempt) == attempt + 1 = maxRetries

\* line 112: attempt === maxRetries
giveUp(attempt) == attempt = maxRetries

workerAfterCatch_rethrow == "done"

\* lines 302..311: the catch block of processSingleRow ends normally, so the
\* worker goes on to claim the next index
workerAfterCatch == "claim"

backoffDelay_linear(attempt) == baseDelayMs * (attempt + 1)

\* line 117: baseDelayMs * Math.pow(2, attempt)
backoffDelay(attempt) == baseDelayMs * (2 ^ attempt)


(***************************************************************************)
(* State                                                                   *)
(***************************************************************************)
VARIABLES
  config,      \* FeedBotConfig after the constructor: concurrency, delayMs
  rows,        \* what loadCSV returns
  disk,        \* the state files, by path
  run,         \* number of the current invocation of the program
  mainPc,      \* position of run(): idle, combo, workers, done, aborted
  ci,          \* index of the combination started last (0: none yet)
  state,       \* the StateFile object shared by the workers of a combination
  nextIndex,   \* runWithConcurrency's shared counter
  wpc,         \* position of each worker: idle, claim, calling, backoff, delay, done
  wrow,        \* the index (1-based) of the row of a worker's current job, kept
               \* until the worker claims again
  wattempt,    \* retryWithBackoff's attempt of each worker
  stats,       \* ResultsAggregator.stats
  status,      \* history: outcome of the job of every row of the current combination
  log,         \* history: what providerClient.process did on each call of a
               \* worker's current job, kept until the worker claims again
  sleeps,      \* history: the backoff pauses of that job
  everFailed,  \* history: some job, of this run or an earlier one, has ended Failed
  given,       \* history: the FeedBotConfig as it was passed to the constructor
  claims,      \* history: for every offered row of the current combination, how
               \* many times a worker has taken its index from nextIndex
  paused,      \* history: the pauses (line 300) made after a worker's current
               \* job, kept until the worker claims again
  call,        \* the call of a text function under way: its name and argument
  ret,         \* what that call returned
  sent,        \* history: the requests a call of OpenRouterModelClient.process
               \* has sent so far, each with the answer of the SDK
  ledger,      \* the cost ledger file (openrouter_cost_ledger.json)
  held,        \* history: the entries the ledger held at the start or after
               \* the last reset
  logged       \* history: the logRequest calls since then, in call order

vars == <<config, rows, disk, run, mainPc, ci, state, nextIndex, wpc, wrow,
          wattempt, stats, status, log, sleeps, everFailed, given, claims, paused,
          call, ret, sent, ledger, held, logged>>

\* the variables of the job processor, of the text functions and of the ledger
processorVars == <<config, rows, disk, run, mainPc, ci, state, nextIndex, wpc, wrow,
                   wattempt, stats, status, log, sleeps, everFailed, given, claims,
                   paused>>
textVars == <<call, ret, sent>>
ledgerVars == <<ledger, held, logged>>

Workers == 1..MaxConcurrency

\* Array.prototype.slice(start, end) for 0 <= start: a negative end counts from
\* the end of the array
slice(items, start, end) ==
  LET last == IF end < 0 THEN Max(Len(items) + end, 0) ELSE Min(end, Len(items))
  IN SubSeq(items, start + 1, last)

\* the rows offered to a combination (lines 330..332); a limit is <<>> when
\* none is configured and <<M>> otherwise, and the test of line 330 takes a
\* limit of 0 like none
rowsToProcess ==
  IF config.limit # <<>> /\ config.limit[1] # 0
  THEN slice(rows, 0, config.limit[1])
  ELSE rows

total == Len(rowsToProcess)

workerCount_perRow == total

\* line 83
workerCount == Min(Max(1, config.concurrency), total)

ZeroStats == [processed |-> 0, skipped |-> 0, failed |-> 0]

incrementStat_lost(st, key, statType) ==
  IF key \in DOMAIN st /\ statType # "skipped"
  THEN [st EXCEPT ![key] = [@ EXCEPT ![statType] = @ + 1]]
  ELSE st

\* ResultsAggregator.incrementStat: nothing happens for an unknown key
incrementStat(st, key, statType) ==
  IF key \in DOMAIN st
  THEN [st EXCEPT ![key] = [@ EXCEPT ![statType] = @ + 1]]
  ELSE st

\* ResultsAggregator.initializeCombination
initializeCombination(st, key) ==
  [k \in (DOMAIN st) \cup {key} |-> IF k = key THEN ZeroStats ELSE st[k]]

AllPending(rs) == [i \in 1..Len(rs) |-> "Pending"]

NoHistory == [w \in Workers |-> <<>>]

NoClaims == [i \in 1..total |-> 0]

\* the constructor (lines 54..57): concurrency becomes Math.max(1, concurrency)
constructor(cfg) == [cfg EXCEPT !.concurrency = Max(1, cfg.concurrency)]

pauseAfter_everyJob(cfg, index, tot) ==
  IF cfg.concurrency = 1 /\ cfg.delayMs > 0 THEN cfg.delayMs ELSE 0

\* lines 293..301: the pause made after a completed job, 0 when none is made;
\* index counts the offered rows from 1
pauseAfter(cfg, index, tot) ==
  IF cfg.concurrency = 1 /\ cfg.delayMs > 0 /\ index < tot THEN cfg.delayMs ELSE 0

claimIndex_pre(n) == n + 1

\* line 87: currentIndex = nextIndex++ takes the value before the increment
claimIndex(n) == n

\* the configurations passed to the constructor.  With more than one worker
\* the delay is not read beyond the test of line 294 and a limit of 0 takes
\* the branch of no limit (line 330): there a delay comes without a limit,
\* and the limit of 0 is left to the pools of one worker
Configs ==
  { c \in [concurrency : 0..MaxConcurrency, delayMs : DelayMsChoices, limit : LimitChoices] :
      c.concurrency > 1 => (c.limit # <<0>> /\ (c.delayMs > 0 => c.limit = <<>>)) }

\* no call of a text function is under way
NoCall == [fn |-> "none", arg |-> <<>>]
NoReturn == [kind |-> "none", value |-> <<>>]

TextIdle == call = NoCall /\ ret = NoReturn /\ sent = <<>>

\* summary: {}
EmptySummary == [m \in {} |-> 0]

LedgerIdle ==
  /\ ledger = [kind |-> "missing", entries |-> <<>>, summary |-> EmptySummary]
  /\ held = <<>>
  /\ logged = <<>>

ProcessorInit ==
  /\ given \in Configs
  /\ config = constructor(given)
  /\ rows \in RowLists
  /\ disk \in [StatePaths -> {MissingFile, CorruptFile}]
  /\ run = 1
  /\ mainPc = "idle"
  /\ ci = 0
  /\ state = EmptyState
  /\ nextIndex = 0
  /\ wpc = [w \in Workers |-> "idle"]
  /\ wrow = [w \in Workers |-> 0]
  /\ wattempt = [w \in Workers |-> 0]
  /\ stats = [k \in {} |-> ZeroStats]
  /\ status = AllPending(rowsToProcess)
  /\ log = NoHistory
  /\ sleeps = NoHistory
  /\ everFailed = FALSE
  /\ claims = NoClaims
  /\ paused = NoHistory

\* the processor has been constructed and is not running
ProcessorIdle ==
  /\ ProcessorInit
  /\ given = [concurrency |-> MaxConcurrency, delayMs |-> 0, limit |-> <<>>]
  /\ rows = <<>>
  /\ \A p \in StatePaths : disk[p] = MissingFile

Init ==
  /\ ProcessorInit
  /\ TextIdle
  /\ LedgerIdle

(***************************************************************************)
(* run(): up to the first processCombination                               *)
(***************************************************************************)
Run ==
  /\ mainPc = "idle"
  /\ mainPc' = "combo"
  /\ UNCHANGED <<config, rows, disk, run, ci, state, nextIndex, wpc, wrow, wattempt,
                 stats, status, log, sleeps, everFailed, given, claims, paused>>
  /\ UNCHANGED <<textVars, ledgerVars>>

(***************************************************************************)
(* processCombination up to the await of runWithConcurrency.  An exception *)
(* of loadState leaves processCombination and run().                       *)
(***************************************************************************)
ProcessCombination ==
  /\ mainPc = "combo"
  /\ ci' = ci + 1
  /\ stats' = initializeCombination(stats, StatsKeyOf(ci + 1))
  /\ LET loaded == loadState(disk[StatePathOf(ci + 1)])
     IN IF loaded.kind = "throw"
        THEN /\ mainPc' = "aborted"
             /\ UNCHANGED <<state, nextIndex, wpc>>
        ELSE /\ mainPc' = "workers"
             /\ state' = loaded.state
             /\ nextIndex' = 0
             /\ wpc' = [w \in Workers |-> IF w <= workerCount THEN "claim" ELSE "idle"]
  /\ log' = NoHistory
  /\ sleeps' = NoHistory
  /\ wrow' = [w \in Workers |-> 0]
  /\ status' = AllPending(rowsToProcess)
  /\ claims' = NoClaims
  /\ paused' = NoHistory
  /\ UNCHANGED <<config, rows, disk, run, wattempt, everFailed, given>>
  /\ UNCHANGED <<textVars, ledgerVars>>

(***************************************************************************)
(* A worker claims the next index and runs processSingleRow up to its      *)
(* first await: a skip, or the first call of the provider.                 *)
(***************************************************************************)
WorkerClaim(w) ==
  /\ mainPc = "workers"
  /\ wpc[w] = "claim"
  /\ nextIndex' = nextIndex + 1
  /\ paused' = [paused EXCEPT ![w] = <<>>]
  /\ IF claimIndex(nextIndex) >= total
     THEN /\ wpc' = [wpc EXCEPT ![w] = "done"]
          /\ claims' = claims
          /\ wrow' = [wrow EXCEPT ![w] = 0]
          /\ log' = [log EXCEPT ![w] = <<>>]
          /\ sleeps' = [sleeps EXCEPT ![w] = <<>>]
          /\ UNCHANGED <<wattempt, stats, status>>
     ELSE LET i == claimIndex(nextIndex) + 1
              row == rowsToProcess[i]
          IN /\ claims' = [claims EXCEPT ![i] = @ + 1]
             /\ IF getSkipReason(row) # "null" \/ isAlreadyProcessed(row, state)
                THEN /\ stats' = incrementStat(stats, StatsKeyOf(ci), "skipped")
                     /\ status' = [status EXCEPT ![i] = "Skipped"]
                     /\ wrow' = [wrow EXCEPT ![w] = 0]
                     /\ log' = [log EXCEPT ![w] = <<>>]
                     /\ sleeps' = [sleeps EXCEPT ![w] = <<>>]
                     /\ UNCHANGED <<wpc, wattempt>>
                ELSE /\ wpc' = [wpc EXCEPT ![w] = "calling"]
                     /\ wrow' = [wrow EXCEPT ![w] = i]
                     /\ wattempt' = [wattempt EXCEPT ![w] = 0]
                     /\ log' = [log EXCEPT ![w] = <<>>]
                     /\ sleeps' = [sleeps EXCEPT ![w] = <<>>]
                     /\ UNCHANGED <<stats, status>>
  /\ UNCHANGED <<config, rows, disk, run, mainPc, ci, state, everFailed, given>>
  /\ UNCHANGED <<textVars, ledgerVars>>

(***************************************************************************)
(* The call of modelManager.processRow settles.  On success the entry is   *)
(* stored and the file written before anything else runs; on an error      *)
(* retryWithBackoff decides between a pause and giving up.                 *)
(***************************************************************************)
ProviderSettles(w) ==
  /\ mainPc = "workers"
  /\ wpc[w] = "calling"
  /\ \E provided \in ProcessOutcomes :
       LET i == wrow[w]
           row == rowsToProcess[i]
           result == processRow(provided)
           stateEntry == StateEntry(result, <<run, i>>)
           newState == withEntry(state, StateKey(row), stateEntry)
       IN /\ log' = [log EXCEPT ![w] = Append(@, provided)]
          /\ IF result.kind = "ok"
             THEN /\ state' = newState
                  /\ disk' = [disk EXCEPT ![StatePathOf(ci)] = saveState(newState)]
                  /\ stats' = incrementStat(stats, StatsKeyOf(ci), "processed")
                  /\ status' = [status EXCEPT ![i] = "Completed"]
                  /\ wpc' = [wpc EXCEPT ![w] =
                               IF pauseAfter(config, i, total) > 0 THEN "delay" ELSE "claim"]
                  /\ paused' = [paused EXCEPT ![w] =
                                  IF pauseAfter(config, i, total) > 0
                                  THEN Append(@, pauseAfter(config, i, total)) ELSE @]
                  /\ wattempt' = [wattempt EXCEPT ![w] = 0]
                  /\ UNCHANGED <<sleeps, everFailed>>
             ELSE IF isRateLimitError(result) /\ ~giveUp(wattempt[w])
             THEN /\ sleeps' = [sleeps EXCEPT ![w] = Append(@, backoffDelay(wattempt[w]))]
                  /\ wpc' = [wpc EXCEPT ![w] = "backoff"]
                  /\ UNCHANGED <<state, disk, stats, status, wattempt, everFailed, paused>>
             ELSE /\ stats' = incrementStat(stats, StatsKeyOf(ci), "failed")
                  /\ status' = [status EXCEPT ![i] = "Failed"]
                  /\ wpc' = [wpc EXCEPT ![w] = workerAfterCatch]
                  /\ wattempt' = [wattempt EXCEPT ![w] = 0]
                  /\ everFailed' = TRUE
                  /\ UNCHANGED <<state, disk, sleeps, paused>>
  /\ UNCHANGED <<config, rows, run, mainPc, ci, nextIndex, wrow, given, claims>>
  /\ UNCHANGED <<textVars, ledgerVars>>

\* the backoff pause ends: next iteration of retryWithBackoff's loop
BackoffElapsed(w) ==
  /\ mainPc = "workers"
  /\ wpc[w] = "backoff"
  /\ wattempt' = [wattempt EXCEPT ![w] = @ + 1]
  /\ wpc' = [wpc EXCEPT ![w] = "calling"]
  /\ UNCHANGED <<config, rows, disk, run, mainPc, ci, state, nextIndex, wrow, stats,
                 status, log, sleeps, everFailed, given, claims, paused>>
  /\ UNCHANGED <<textVars, ledgerVars>>

\* the pause after a completed job ends (lines 293..301)
DelayElapsed(w) ==
  /\ mainPc = "workers"
  /\ wpc[w] = "delay"
  /\ wpc' = [wpc EXCEPT ![w] = "claim"]
  /\ UNCHANGED <<config, rows, disk, run, mainPc, ci, state, nextIndex, wrow, wattempt,
                 stats, status, log, sleeps, everFailed, given, claims, paused>>
  /\ UNCHANGED <<textVars, ledgerVars>>

promiseAll_race(pcs) == \E w \in Workers : pcs[w] = "done"

\* line 95: await Promise.all(workers) goes on when every worker that was
\* started has returned
promiseAll(pcs) == \A w \in Workers : pcs[w] \in {"idle", "done"}

(***************************************************************************)
(* Promise.all of the workers resolves: processCombination returns and the *)
(* loops of run() go on to the next combination, or run() returns.         *)
(***************************************************************************)
CombinationComplete ==
  /\ mainPc = "workers"
  /\ promiseAll(wpc)
  /\ mainPc' = IF ci < NumCombos THEN "combo" ELSE "done"
  /\ UNCHANGED <<config, rows, disk, run, ci, state, nextIndex, wpc, wrow, wattempt, stats,
                 status, log, sleeps, everFailed, given, claims, paused>>
  /\ UNCHANGED <<textVars, ledgerVars>>

(***************************************************************************)
(* The program is started again on the same rows, with the state files as  *)
(* the previous invocation left them.                                      *)
(***************************************************************************)
Rerun ==
  /\ mainPc \in {"done", "aborted"}
  /\ run < MaxRuns
  /\ run' = run + 1
  /\ mainPc' = "idle"
  /\ ci' = 0
  /\ state' = EmptyState
  /\ nextIndex' = 0
  /\ wpc' = [w \in Workers |-> "idle"]
  /\ wrow' = [w \in Workers |-> 0]
  /\ wattempt' = [w \in Workers |-> 0]
  /\ stats' = [k \in {} |-> ZeroStats]
  /\ status' = AllPending(rowsToProcess)
  /\ claims' = NoClaims
  /\ paused' = NoHistory
  /\ log' = NoHistory
  /\ sleeps' = NoHistory
  /\ UNCHANGED <<config, rows, disk, everFailed, given>>
  /\ UNCHANGED <<textVars, ledgerVars>>

Next ==
  \/ Run
  \/ ProcessCombination
  \/ \E w \in Workers : WorkerClaim(w)
  \/ \E w \in Workers : ProviderSettles(w)
  \/ \E w \in Workers : BackoffElapsed(w)
  \/ \E w \in Workers : DelayElapsed(w)
  \/ CombinationComplete
  \/ Rerun

Spec == Init /\ [][Next]_vars


(***************************************************************************)
(* Fairness: the event loop runs every continuation that is ready, every   *)
(* timer fires, and every call of the provider settles.  Starting the      *)
(* program again is up to the user and is not required.                    *)
(***************************************************************************)
Fairness ==
  /\ WF_vars(Run)
  /\ WF_vars(ProcessCombination)
  /\ WF_vars(CombinationComplete)
  /\ \A w \in Workers :
       /\ WF_vars(WorkerClaim(w))
       /\ WF_vars(ProviderSettles(w))
       /\ WF_vars(BackoffElapsed(w))
       /\ WF_vars(DelayElapsed(w))

LiveSpec == Init /\ [][Next]_vars /\ Fairness

(***************************************************************************)
(* Vocabulary of the properties                                            *)
(***************************************************************************)
CurrentFile == disk[StatePathOf(ci)]

AllWorkersDone == mainPc = "workers" /\ \A w \in Workers : wpc[w] \in {"idle", "done"}

InFlight(w) == wpc[w] \in {"calling", "backoff"}

\* worker w has a job on record: its current one or the one it finished last
HasJob(w) == wrow[w] # 0 /\ log[w] # <<>>

\* the job on record of worker w has left no entry in the state file
NoEntryBy(w) ==
  \A f \in DOMAIN CurrentFile.processed :
     CurrentFile.processed[f].timestamp # <<run, wrow[w]>>

\* the call of the operation of retryWithBackoff (processRow, given this outcome
\* of the provider client) failed with an error that has a status of 429 or a
\* message containing "429"
TakenForRateLimit(outcome) ==
  /\ processRow(outcome).kind = "error"
  /\ processRow(outcome).status = 429 \/ processRow(outcome).has429

DistinctFingerprints ==
  \A i, j \in DOMAIN rowsToProcess :
     i # j => rowsToProcess[i].fingerprint # rowsToProcess[j].fingerprint

NoRowSkipped ==
  \A i \in DOMAIN rowsToProcess : rowsToProcess[i].error_type # "DEPENDENCY_NOT_MET"

(***************************************************************************)
(* C1.  No lost writes: when a combination that started from an empty      *)
(* state (first run) is processed with concurrency >= 2 over rows with     *)
(* pairwise distinct fingerprints, none of them skipped, then from the     *)
(* moment every job is completed the state file holds exactly one entry    *)
(* per row.                                                                *)
(***************************************************************************)
C1_NoLostWrites ==
  ( /\ run = 1
    /\ config.concurrency >= 2
    /\ DistinctFingerprints
    /\ NoRowSkipped
    /\ mainPc \in {"workers", "combo", "done"}
    /\ ci >= 1
    /\ \A i \in DOMAIN rowsToProcess : status[i] = "Completed" )
  => /\ Cardinality(DOMAIN CurrentFile.processed) = total
     /\ \A i \in DOMAIN rowsToProcess :
          rowsToProcess[i].fingerprint \in DOMAIN CurrentFile.processed

\* two workers have each completed one of two rows
C1_Witness ==
  /\ run = 1
  /\ config.concurrency >= 2
  /\ DistinctFingerprints
  /\ NoRowSkipped
  /\ mainPc = "workers"
  /\ total >= 2
  /\ \A i \in DOMAIN rowsToProcess : status[i] = "Completed"
  /\ wrow[1] # 0 /\ wrow[2] # 0 /\ wrow[1] # wrow[2]
  /\ Cardinality(DOMAIN CurrentFile.processed) = total

(***************************************************************************)
(* C2 as stated: an entry of a state file, once there, is never replaced   *)
(* by another one.                                                         *)
(***************************************************************************)
C2_Original ==
  [][\A p \in StatePaths : \A f \in DOMAIN disk[p].processed :
        /\ f \in DOMAIN disk'[p].processed
        /\ disk'[p].processed[f] = disk[p].processed[f]]_vars

C4_Durable ==
  /\ [](\A i \in DOMAIN status :
          status[i] = "Completed" =>
             /\ CurrentFile.kind = "json"
             /\ rows[i].fingerprint \in DOMAIN CurrentFile.processed)
  /\ [][\A p \in StatePaths :
          DOMAIN disk[p].processed \subseteq DOMAIN disk'[p].processed]_vars

\* one job is completed and on disk while another one is still in flight
C4_Witness ==
  /\ \E i \in DOMAIN status :
       status[i] = "Completed" /\ rows[i].fingerprint \in DOMAIN CurrentFile.processed
  /\ \E w \in Workers : InFlight(w)
  /\ Cardinality(DOMAIN CurrentFile.processed) >= 1

C6_Original ==
  \A w \in Workers : \A k \in DOMAIN log[w] :
     (log[w][k].kind = "error" /\ log[w][k].status = 429 /\ k <= maxRetries)
     => (k < Len(log[w]) \/ wpc[w] = "backoff")

C8_Original ==
  \A w \in Workers :
     ( /\ HasJob(w)
       /\ log[w][Len(log[w])].kind = "content"
       /\ log[w][Len(log[w])].content = Sentinel )
     => /\ status[wrow[w]] = "Failed"
        /\ NoEntryBy(w)

(***************************************************************************)
(* C9 as stated: a state file that is missing or cannot be parsed is not   *)
(* fatal; run() never ends with the exception of loadState.                *)
(***************************************************************************)
C9_Original == mainPc # "aborted"


(***************************************************************************)
(* C10.  Failure isolation and termination, under LiveSpec: once the rows  *)
(* of a combination are offered to the workers, every one of them reaches  *)
(* Skipped, Completed or Failed and keeps that outcome, whatever the       *)
(* provider does; processCombination is then called for the next           *)
(* combination; and every run() comes to an end.                           *)
(***************************************************************************)
C10_EveryRowSettles ==
  /\ (mainPc = "workers")
        ~> (AllWorkersDone /\ \A i \in DOMAIN status : status[i] # "Pending")
  /\ \A k \in 1..(NumCombos - 1) :
        (mainPc = "workers" /\ ci = k) ~> (mainPc \in {"workers", "aborted"} /\ ci = k + 1)
  /\ (mainPc = "idle") ~> (mainPc \in {"done", "aborted"})
  /\ [][\A i \in DOMAIN status :
          (status[i] # "Pending" /\ ci' = ci /\ run' = run) => status'[i] = status[i]]_vars

\* a run has ended in which the first row failed in both combinations and a
\* later row was completed all the same
C10_Witness ==
  /\ mainPc = "done"
  /\ ci = NumCombos
  /\ total >= 2
  /\ status[1] = "Failed"
  /\ status[2] = "Completed"
  /\ \A k \in 1..NumCombos : stats[StatsKeyOf(k)].failed >= 1

(***************************************************************************)
(* C11.  Counts add up: while a combination is processed, processed +      *)
(* skipped + failed of its statistics equals the number of offered rows    *)
(* whose job has reached an outcome, and once processCombination has       *)
(* returned it equals the number of rows offered (all rows, or the first M *)
(* under a limit M).                                                       *)
(***************************************************************************)
Counted ==
  LET st == stats[StatsKeyOf(ci)] IN st.processed + st.skipped + st.failed

Returned_processCombination == mainPc \in {"combo", "done"} /\ ci >= 1

C11_CountsAddUp ==
  /\ (mainPc = "workers" \/ Returned_processCombination)
       => Counted = Cardinality({i \in DOMAIN status : status[i] # "Pending"})
  /\ Returned_processCombination => Counted = total

\* a combination has returned that was limited to the first of two rows, and
\* the job of that row failed
C11_Witness ==
  /\ Returned_processCombination
  /\ config.limit = <<1>>
  /\ Len(rows) = 2
  /\ total = 1
  /\ stats[StatsKeyOf(ci)].failed = 1
  /\ Counted = 1

(***************************************************************************)
(* C12.  A row whose error_type is DEPENDENCY_NOT_MET is never the row of  *)
(* a provider call, and once its index is taken it is counted Skipped,     *)
(* in every combination and whatever the state holds.                      *)
(***************************************************************************)
C12_DependencyRowSkipped ==
  \A i \in DOMAIN rowsToProcess :
     rowsToProcess[i].error_type = "DEPENDENCY_NOT_MET"
     => /\ \A w \in Workers : wrow[w] # i
        /\ status[i] \in {"Pending", "Skipped"}
        /\ claims[i] >= 1 => status[i] = "Skipped"

\* in the second combination a DEPENDENCY_NOT_MET row is skipped after another
\* row was completed
C12_Witness ==
  /\ ci = NumCombos
  /\ \E i, j \in DOMAIN rowsToProcess :
       /\ rowsToProcess[i].error_type = "DEPENDENCY_NOT_MET"
       /\ status[i] = "Skipped"
       /\ status[j] = "Completed"
       /\ j < i
  /\ stats[StatsKeyOf(ci)].skipped >= 1

(***************************************************************************)
(* C19.  Every index is claimed exactly once: at every moment of           *)
(* runWithConcurrency the indices below nextIndex have been taken once     *)
(* each and the others not at all,                                         *)
(* and when runWithConcurrency has returned every offered row was taken    *)
(* exactly once.                                                           *)
(***************************************************************************)
C19_ClaimedOnce ==
  /\ (mainPc = "workers" \/ Returned_processCombination)
       => \A i \in DOMAIN claims : claims[i] = IF i <= nextIndex THEN 1 ELSE 0
  /\ (AllWorkersDone \/ Returned_processCombination)
       => \A i \in DOMAIN rowsToProcess : claims[i] = 1

\* two workers have shared two rows and runWithConcurrency has returned
C19_Witness ==
  /\ Returned_processCombination
  /\ config.concurrency = 2
  /\ total = 2
  /\ \A i \in DOMAIN rowsToProcess : claims[i] = 1
  /\ \A i \in DOMAIN status : status[i] \in {"Completed", "Failed"}

(***************************************************************************)
(* C20.  Bounded pool: the number of jobs in flight never exceeds          *)
(* min(max(1, N), number of offered rows) for the configured concurrency   *)
(* N; in particular N < 1 gives one job at a time.                         *)
(***************************************************************************)
JobsInFlight == Cardinality({w \in Workers : InFlight(w)})

C20_BoundedPool ==
  /\ JobsInFlight <= Min(Max(1, given.concurrency), total)
  /\ given.concurrency < 1 => config.concurrency = 1

\* a job is in flight under a configured concurrency of 0, with a second row
\* still waiting
C20_Witness ==
  /\ given.concurrency = 0
  /\ total = 2
  /\ JobsInFlight = 1
  /\ nextIndex = 1

(***************************************************************************)
(* C21.  Combinations run one after another, in the order of the nested    *)
(* loops over models and promptVariations: the combinations started so far *)
(* are the first ci pairs of that order; a state file is written only for  *)
(* the combination started last and only while its workers run; and the    *)
(* next combination is started only when every offered row of the current  *)
(* one is Skipped, Completed or Failed and no worker is calling, backing    *)
(* off or pausing.                                                         *)
(***************************************************************************)
\* the pairs the nested loops of run() have reached after k iterations
FirstPairs(k) ==
  { <<m, p>> \in (DOMAIN Models) \X (DOMAIN PromptVariations) :
      (m - 1) * Len(PromptVariations) + p <= k }

C24_Original ==
  LET n == Len(rows)
      offered == IF given.limit = <<>> THEN n ELSE Min(given.limit[1], n)
  IN /\ rowsToProcess = SubSeq(rows, 1, offered)
     /\ \A w \in Workers : wrow[w] <= offered
     /\ ci >= 1 => Counted <= offered

(***************************************************************************)
(* C22 as stated: with concurrency 1 and delayMs > 0 a pause of delayMs     *)
(* follows every Completed job, none follows a Skipped or Failed job, and  *)
(* with concurrency > 1 no pause is made.                                  *)
(***************************************************************************)
\* the job on record of worker w was completed
CompletedBy(w) == wrow[w] # 0 /\ status[wrow[w]] = "Completed"

LedgerModels == {"openai/gpt-5-mini", "qwen/qwen3-32b"}
TokenChoices == {1, 2}

CostLedgerEntry(model, totalTokens) == [model |-> model, totalTokens |-> totalTokens]

NoEntries == <<>>

FreshLedger == [entries |-> NoEntries, summary |-> EmptySummary]

load_fresh(file) == FreshLedger

\* load(): the parsed file, or a fresh document when the file is missing or
\* cannot be parsed
load(file) ==
  IF file.kind = "json"
  THEN [entries |-> file.entries, summary |-> file.summary]
  ELSE FreshLedger

save(data) == [kind |-> "json", entries |-> data.entries, summary |-> data.summary]

RECURSIVE SumTokens(_, _)
SumTokens(entries, model) ==
  IF entries = <<>> THEN 0
  ELSE (IF Head(entries).model = model THEN Head(entries).totalTokens ELSE 0)
       + SumTokens(Tail(entries), model)

CountModel(entries, model) ==
  Cardinality({i \in DOMAIN entries : entries[i].model = model})

rebuildSummary(entries) ==
  [m \in {entries[i].model : i \in DOMAIN entries} |->
     [model |-> m,
      requestCount |-> CountModel(entries, m),
      totalTokens |-> SumTokens(entries, m)]]

logRequest(file, model, totalTokens) ==
  LET data == load(file)
      entries == Append(data.entries, CostLedgerEntry(model, totalTokens))
  IN save([entries |-> entries, summary |-> rebuildSummary(entries)])

reset == save(FreshLedger)

\* the ledger files a program may find: none, one that does not parse, or a
\* document whose summary is its rebuilt one or a stale (empty) one
LedgerFiles ==
  {[kind |-> "missing", entries |-> NoEntries, summary |-> EmptySummary],
   [kind |-> "corrupt", entries |-> NoEntries, summary |-> EmptySummary]}
  \cup {save([entries |-> es, summary |-> sm]) :
          <<es, sm>> \in {<<es, sm>> \in
             (UNION {[1..n -> {CostLedgerEntry(m, t) : m \in LedgerModels, t \in TokenChoices}]
                       : n \in 0..1})
             \X {EmptySummary, rebuildSummary(<<CostLedgerEntry("openai/gpt-5-mini", 1)>>)} :
             sm # EmptySummary => sm = rebuildSummary(es)}}

LedgerInit ==
  /\ ProcessorIdle
  /\ TextIdle
  /\ ledger \in LedgerFiles
  /\ held = load(ledger).entries
  /\ logged = <<>>

\* worker w reports one request
LogRequest(w, model, totalTokens) ==
  /\ Len(logged) < MaxLogCalls
  /\ ledger' = logRequest(ledger, model, totalTokens)
  /\ logged' = Append(logged, CostLedgerEntry(model, totalTokens))
  /\ UNCHANGED <<held, processorVars, textVars>>

Reset ==
  /\ logged # <<>>
  /\ ledger' = reset
  /\ held' = <<>>
  /\ logged' = <<>>
  /\ UNCHANGED <<processorVars, textVars>>

LedgerNext ==
  \/ \E w \in Workers, model \in LedgerModels, totalTokens \in TokenChoices :
       LogRequest(w, model, totalTokens)
  \/ Reset

LedgerSpec == LedgerInit /\ [][LedgerNext]_vars

(***************************************************************************)
(* C18.  After K logRequest calls with no reset in between, whoever made   *)
(* them, the ledger holds the entries it held before followed by the K new *)
(* entries in call order, and for every model the summary's requestCount   *)
(* is the number of entries of that model.                                 *)
(***************************************************************************)
C18_AppendOnly ==
  /\ load(ledger).entries = held \o logged
  /\ logged # <<>> =>
       /\ ledger.kind = "json"
       /\ \A m \in LedgerModels :
            LET n == CountModel(ledger.entries, m) IN
            IF n = 0 THEN m \notin DOMAIN ledger.summary
            ELSE /\ m \in DOMAIN ledger.summary
                 /\ ledger.summary[m].requestCount = n

\* three calls, for two models, appended to a ledger that held an entry and
\* a stale summary
C18_Witness ==
  /\ Len(held) = 1
  /\ Len(logged) = MaxLogCalls
  /\ \E i, j \in DOMAIN logged : logged[i].model # logged[j].model
  /\ \E m \in LedgerModels : ledger.summary[m].requestCount >= 2


(***************************************************************************)
(* The text functions.  A text is the sequence of its pieces: a piece is   *)
(* the newline "\n" or a run of other characters, named by what the        *)
(* patterns of the code can tell of it.                                    *)
(***************************************************************************)
\* the first index of a for loop that finds one
Least(S) == CHOOSE x \in S : \A y \in S : x <= y

RECURSIVE Flatten(_)
Flatten(seqs) == IF seqs = <<>> THEN <<>> ELSE Head(seqs) \o Flatten(Tail(seqs))

SeqsUpTo(S, n) == UNION {[1..k -> S] : k \in 0..n}

Calling(fn, arg) == [fn |-> fn, arg |-> arg]
Returns(value) == [kind |-> "returned", value |-> value]

(***************************************************************************)
(* extractAssignmentCore (part_008).  A line of the output is "dep" (it    *)
(* matches /Dependencies Not Met/i or /not graded because/i), "mut" (a     *)
(* mutation testing line), "assert" (an assertion line), "plain" (none of  *)
(* these), "blank" (white space only) or "" (empty).                       *)
(***************************************************************************)
LineKinds == {"dep", "mut", "assert", "plain", "blank", ""}

\* output.split("\n"): the text is cut at every newline; what stands between
\* two cuts is a line, and it is "" when nothing stands there.  The cuts are
\* made from the middle outwards.
RECURSIVE split(_)
split(text) ==
  LET newlines == {i \in DOMAIN text : text[i] = "\n"}
      Off(i) == IF 2 * i > Len(text) THEN 2 * i - Len(text) ELSE Len(text) - 2 * i
  IN IF newlines = {}
     THEN (IF text = <<>> THEN <<"">> ELSE <<Head(text)>>)
     ELSE LET m == CHOOSE i \in newlines : \A j \in newlines : Off(i) <= Off(j)
          IN split(SubSeq(text, 1, m - 1)) \o split(SubSeq(text, m + 1, Len(text)))

\* lines.join("\n"): the lines with a newline between each two, an empty line
\* adding nothing; the halves are joined first
RECURSIVE join(_)
join(lines) ==
  IF lines = <<>> THEN <<>>
  ELSE IF Len(lines) = 1 THEN (IF Head(lines) = "" THEN <<>> ELSE <<Head(lines)>>)
  ELSE LET half == Len(lines) \div 2
       IN join(SubSeq(lines, 1, half)) \o <<"\n">>
          \o join(SubSeq(lines, half + 1, Len(lines)))

\* String.prototype.trim() of a line
trimLine(line) == IF line = "blank" THEN "" ELSE line

\* the pieces that are white space: the newline, the space and a blank line's
\* content
WhiteSpace == {"\n", " ", "blank"}

\* String.prototype.trim() of a text
RECURSIVE trimStart(_)
trimStart(text) ==
  IF text # <<>> /\ Head(text) \in WhiteSpace THEN trimStart(Tail(text)) ELSE text

RECURSIVE trimEnd(_)
trimEnd(text) ==
  IF text # <<>> /\ text[Len(text)] \in WhiteSpace
  THEN trimEnd(SubSeq(text, 1, Len(text) - 1))
  ELSE text

trim(text) == trimEnd(trimStart(text))

\* lines 12, 27
blockLimit == 30
\* line 57
snippetLimit == 8

blockEnd_all(i, n) == n

\* Math.min(i + 30, lines.length): the index after the last line of a block
\* that starts at line i (indices from 1: the block ends at i + 30 - 1)
blockEnd(i, n) == Min(i + blockLimit - 1, n)

\* lines 11-18 and 26-33: the lines from i on, up to the block's end or the
\* first empty or blank line, trimmed and joined
block(lines, i) ==
  LET last == blockEnd(i, Len(lines))
      stops == {j \in i..last : lines[j] \in {"", "blank"}}
      final == IF stops = {} THEN last ELSE Least(stops) - 1
  IN trim(join([k \in 1..(final - i + 1) |-> trimLine(lines[i + k - 1])]))

NonEmpty(line) == line # ""

Signals == {"dep", "mut", "assert"}

ruleOf_byPosition(lines) ==
  LET signals == {i \in DOMAIN lines : lines[i] \in Signals}
  IN IF signals = {} THEN "none" ELSE lines[Least(signals)]

\* the rule that returns: the three loops (lines 8, 23, 38) run one after the
\* other, each over all the lines, and the first loop that finds a line of
\* its kind returns
ruleOf(lines) ==
  IF \E i \in DOMAIN lines : lines[i] = "dep" THEN "dep"
  ELSE IF \E i \in DOMAIN lines : lines[i] = "mut" THEN "mut"
  ELSE IF \E i \in DOMAIN lines : lines[i] = "assert" THEN "assert"
  ELSE "none"

extractAssignmentCore(output) ==
  LET lines == split(output)
      n == Len(lines)
      rule == ruleOf(lines)
      deps == {i \in 1..n : lines[i] = "dep"}
      muts == {i \in 1..n : lines[i] = "mut"}
      asserts == {i \in 1..n : lines[i] = "assert"}
  IN IF n = 0 THEN <<>>
     ELSE IF rule = "dep" THEN block(lines, Least(deps))
     ELSE IF rule = "mut" THEN block(lines, Least(muts))
     ELSE IF rule = "assert"
     THEN LET i == Least(asserts)
              start == Max(1, i - 1)
              end == Min(n, i + 5)
              window == [k \in 1..(end - start + 1) |-> trimLine(lines[start + k - 1])]
          IN join(SelectSeq(window, NonEmpty))
     ELSE LET kept == SelectSeq(lines, NonEmpty)
              first == SubSeq(kept, 1, Min(snippetLimit, Len(kept)))
          IN join([k \in DOMAIN first |-> trimLine(first[k])])

CountLines(text) == Cardinality({i \in DOMAIN text : text[i] = "\n"}) + 1

\* the outputs given to extractAssignmentCore: up to MaxSegments runs of
\* lines of one kind, a run being one line, a block's worth or one more
RunLengths == {1, blockLimit, blockLimit + 1}
LineRuns == {[k \in 1..n |-> kind] : kind \in LineKinds, n \in RunLengths}
CoreInputs == {join(Flatten(runs)) : runs \in SeqsUpTo(LineRuns, MaxSegments)}

Apply_extractAssignmentCore ==
  /\ call.fn = "extractAssignmentCore"
  /\ ret.kind = "none"
  /\ ret' = Returns(extractAssignmentCore(call.arg))
  /\ UNCHANGED <<call, sent, processorVars, ledgerVars>>

(***************************************************************************)
(* normalizeAssignmentError (part_008).  The pieces of a core text are the *)
(* word "line", the space, the newline, a digit, the colon, the letter X   *)
(* and a word "w" that no pattern knows.  Over these only the rules of     *)
(* lines 113, 114 and 128 can match: every other pattern needs a           *)
(* character that is none of them.                                         *)
(***************************************************************************)
NormalizeAlphabet == {"line", " ", "\n", "5", ":", "X", "w"}

Digits == {"0", "2", "5"}

isDigit(c) == c \in Digits
isSpace(c) == c \in WhiteSpace

\* the text after the longest run of digits at its start: \d+
RECURSIVE skipDigits(_)
skipDigits(text) ==
  IF text # <<>> /\ isDigit(Head(text)) THEN skipDigits(Tail(text)) ELSE text

\* the text after the longest run of white space at its start: \s+
RECURSIVE skipSpaces(_)
skipSpaces(text) ==
  IF text # <<>> /\ isSpace(Head(text)) THEN skipSpaces(Tail(text)) ELSE text

\* line 113: .replace(/line \d+/gi, "line X")
RECURSIVE replaceLineNumber(_)
replaceLineNumber(text) ==
  IF text = <<>> THEN <<>>
  ELSE IF /\ Len(text) >= 3
          /\ text[1] = "line"
          /\ text[2] = " "
          /\ isDigit(text[3])
       THEN <<"line", " ", "X">> \o replaceLineNumber(skipDigits(Tail(Tail(text))))
       ELSE <<Head(text)>> \o replaceLineNumber(Tail(text))

\* line 114: .replace(/:\d+(?::\d+)?/g, ":X")
RECURSIVE replaceColonNumber(_)
replaceColonNumber(text) ==
  IF text = <<>> THEN <<>>
  ELSE IF Len(text) >= 2 /\ text[1] = ":" /\ isDigit(text[2])
       THEN LET rest == skipDigits(Tail(text))
                after == IF Len(rest) >= 2 /\ rest[1] = ":" /\ isDigit(rest[2])
                         THEN skipDigits(Tail(rest))
                         ELSE rest
            IN <<":", "X">> \o replaceColonNumber(after)
       ELSE <<Head(text)>> \o replaceColonNumber(Tail(text))

\* line 128: .replace(/\s+/g, " ")
RECURSIVE collapseSpaces(_)
collapseSpaces(text) ==
  IF text = <<>> THEN <<>>
  ELSE IF isSpace(Head(text)) THEN <<" ">> \o collapseSpaces(skipSpaces(text))
  ELSE <<Head(text)>> \o collapseSpaces(Tail(text))

normalizeAssignmentError(errorMsg) ==
  trim(collapseSpaces(replaceColonNumber(replaceLineNumber(errorMsg))))

NormalizeInputs == SeqsUpTo(NormalizeAlphabet, MaxTextLen)

Apply_normalizeAssignmentError ==
  /\ call.fn = "normalizeAssignmentError"
  /\ ret.kind = "none"
  /\ ret' = Returns(normalizeAssignmentError(call.arg))
  /\ UNCHANGED <<call, sent, processorVars, ledgerVars>>

(***************************************************************************)
(* extractNormalizedAssertion (assignmentGroupErrors.ts).  The pieces of a *)
(* message are "instructor" (the sentence "Your tests failed against the   *)
(* instructor's solution"), "expected:", "but", "was:", the brackets, the  *)
(* space, the digits and the point.                                        *)
(***************************************************************************)
\* \w
isWord(c) == isDigit(c) \/ c \in {"w", "X", "but", "instructor"}

\* the longest start of the text without ">": [^>]+
RECURSIVE untilClose(_)
untilClose(text) ==
  IF text = <<>> \/ Head(text) = ">" THEN <<>>
  ELSE <<Head(text)>> \o untilClose(Tail(text))

NoMatch == [ok |-> FALSE, expected |-> <<>>, actual |-> <<>>, rest |-> <<>>]

\* <([^>]+)> at the start of the text
bracketed(text) ==
  IF text # <<>> /\ Head(text) = "<"
  THEN LET value == untilClose(Tail(text))
           after == SubSeq(text, Len(value) + 2, Len(text))
       IN IF value # <<>> /\ after # <<>>
          THEN [ok |-> TRUE, value |-> value, rest |-> Tail(after)]
          ELSE [ok |-> FALSE, value |-> <<>>, rest |-> <<>>]
  ELSE [ok |-> FALSE, value |-> <<>>, rest |-> <<>>]

\* /expected:\s*<([^>]+)>\s+but\s+was:\s*<([^>]+)>/i at the start of the text
matchAssertionAt(text) ==
  IF text = <<>> \/ Head(text) # "expected:" THEN NoMatch
  ELSE LET e == bracketed(skipSpaces(Tail(text))) IN
       IF ~e.ok \/ e.rest = <<>> \/ ~isSpace(Head(e.rest)) THEN NoMatch
       ELSE LET b == skipSpaces(e.rest) IN
            IF b = <<>> \/ Head(b) # "but" \/ Tail(b) = <<>> \/ ~isSpace(b[2]) THEN NoMatch
            ELSE LET w == skipSpaces(Tail(b)) IN
                 IF w = <<>> \/ Head(w) # "was:" THEN NoMatch
                 ELSE LET a == bracketed(skipSpaces(Tail(w))) IN
                      IF ~a.ok THEN NoMatch
                      ELSE [ok |-> TRUE, expected |-> e.value, actual |-> a.value,
                            rest |-> a.rest]

\* errorMsg.match(...): the first place where the pattern matches
RECURSIVE matchAssertion(_)
matchAssertion(text) ==
  IF text = <<>> THEN NoMatch
  ELSE IF matchAssertionAt(text).ok THEN matchAssertionAt(text)
  ELSE matchAssertion(Tail(text))

RECURSIVE skipZeros(_)
skipZeros(text) ==
  IF text # <<>> /\ Head(text) = "0" THEN skipZeros(Tail(text)) ELSE text

\* \.0+\b after the digits: a point, zeros and nothing else of a word
zeroFraction(value, afterDigits) ==
  /\ Len(afterDigits) >= 2
  /\ afterDigits[1] = "."
  /\ afterDigits[2] = "0"
  /\ LET after == skipZeros(Tail(afterDigits)) IN after = <<>> \/ ~isWord(Head(after))

\* lines 34, 60: .replace(/\b(\d+)\.0+\b/g, "$1"); atBoundary says that the
\* character before the text is not of a word
RECURSIVE stripZeroFraction(_, _)
stripZeroFraction(value, atBoundary) ==
  IF value = <<>> THEN <<>>
  ELSE IF /\ atBoundary
          /\ isDigit(Head(value))
          /\ zeroFraction(value, skipDigits(value))
       THEN LET afterDigits == skipDigits(value)
                digits == SubSeq(value, 1, Len(value) - Len(afterDigits))
            IN digits \o stripZeroFraction(skipZeros(Tail(afterDigits)), FALSE)
       ELSE <<Head(value)>> \o stripZeroFraction(Tail(value), ~isWord(Head(value)))

\* line 40
largeDigits == 15

\* lines 38-43: .replace(/\d{15,}/g, "LARGE_NUM"); /\d+\.\d+E\d+/ needs an E,
\* which is no piece of these messages
RECURSIVE replaceLargeNumbers(_)
replaceLargeNumbers(value) ==
  IF value = <<>> THEN <<>>
  ELSE IF isDigit(Head(value))
       THEN LET rest == skipDigits(value)
                digits == SubSeq(value, 1, Len(value) - Len(rest))
            IN (IF Len(digits) >= largeDigits THEN <<"LARGE_NUM">> ELSE digits)
               \o replaceLargeNumbers(rest)
       ELSE <<Head(value)>> \o replaceLargeNumbers(Tail(value))

\* lines 30-43, 56-69
normalizeValue(value) ==
  replaceLargeNumbers(stripZeroFraction(trim(collapseSpaces(value)), TRUE))

\* `expected:<${expected}> but was:<${actual}>`
snippet(expected, actual) ==
  <<"expected:", "<">> \o expected \o <<">", " ", "but", " ", "was:", "<">>
  \o actual \o <<">">>

\* lines 74-110 for a message of one line that names no test method and no
\* AssertionFailedError and has fewer than 100 characters
lastResort(errorMsg) ==
  IF \E i \in DOMAIN errorMsg : ~isSpace(errorMsg[i])
  THEN trim(collapseSpaces(errorMsg))
  ELSE <<"unknown_test_failure">>

extractNormalizedAssertion(errorMsg) ==
  LET match == matchAssertion(errorMsg) IN
  IF \E i \in DOMAIN errorMsg : errorMsg[i] = "instructor"
  THEN IF match.ok
       THEN snippet(normalizeValue(match.expected), normalizeValue(match.actual))
       ELSE <<"tests_failed_against_instructor_solution">>
  ELSE IF match.ok
       THEN snippet(normalizeValue(match.expected), normalizeValue(match.actual))
       ELSE lastResort(errorMsg)

\* the numbers of the messages: 2, or 2 and a fraction of zeros and fives
DecimalValues ==
  {<<"2">>} \cup {<<"2", ".">> \o f : f \in SeqsUpTo({"0", "5"}, MaxFraction) \ {<<>>}}

AssertionInputs ==
  {prefix \o snippet(e, a) :
     prefix \in {<<>>, <<"instructor", " ">>}, e \in DecimalValues, a \in DecimalValues}
  \cup {<<>>, <<"instructor">>, <<"w">>}

Apply_extractNormalizedAssertion ==
  /\ call.fn = "extractNormalizedAssertion"
  /\ ret.kind = "none"
  /\ ret' = Returns(extractNormalizedAssertion(call.arg))
  /\ UNCHANGED <<call, sent, processorVars, ledgerVars>>

(***************************************************************************)
(* The category catalogs and the categorizers.  A category is its id and   *)
(* the number of its patterns; pattern k of category c is <<c, k>>, and a  *)
(* message is the set of the patterns that match it.                       *)
(***************************************************************************)
\* buildErrorCategories.ts lines 9-262
BUILD_ERROR_CATEGORIES ==
  <<
     [id |-> "java_version_mismatch", patterns |-> 9],
     [id |-> "java_toolchain_missing", patterns |-> 5],
     [id |-> "nullaway_param_nullable", patterns |-> 1],
     [id |-> "nullaway_field_assignment", patterns |-> 1],
     [id |-> "nullaway_return_nullable", patterns |-> 1],
     [id |-> "nullaway_deref_nullable", patterns |-> 1],
     [id |-> "nullability_error", patterns |-> 1],
     [id |-> "failing_tests", patterns |-> 3],
     [id |-> "symbol_not_found", patterns |-> 2],
     [id |-> "type_mismatch", patterns |-> 3],
     [id |-> "operator_type_mismatch", patterns |-> 1],
     [id |-> "syntax_error", patterns |-> 4],
     [id |-> "method_signature", patterns |-> 3],
     [id |-> "override_mismatch", patterns |-> 2],
     [id |-> "class_declaration", patterns |-> 1],
     [id |-> "duplicate_class", patterns |-> 2],
     [id |-> "abstract_instantiation", patterns |-> 1],
     [id |-> "missing_abstract_override", patterns |-> 1],
     [id |-> "unclosed_block", patterns |-> 1],
     [id |-> "package_error", patterns |-> 1],
     [id |-> "checkstyle_violation", patterns |-> 2],
     [id |-> "spotless_violation", patterns |-> 4],
     [id |-> "errorprone_warning", patterns |-> 5]
  >>

\* assignmentCategories.ts lines 9-102
ASSIGNMENT_ERROR_CATEGORIES ==
  <<
     [id |-> "not_implemented", patterns |-> 5],
     [id |-> "dependency_not_met", patterns |-> 5],
     [id |-> "mutation_testing_zero_faults", patterns |-> 5],
     [id |-> "mutation_testing_partial", patterns |-> 4],
     [id |-> "test_compilation_failed", patterns |-> 3],
     [id |-> "implementation_incomplete", patterns |-> 1],
     [id |-> "test_failure", patterns |-> 6]
  >>

PatternsOf(catalog) ==
  UNION {{<<c, k>> : k \in 1..catalog[c].patterns} : c \in DOMAIN catalog}

\* pattern.test(errorMessage)
test(pattern, errorMessage) == pattern \in errorMessage

IndexOf(catalog, id) == CHOOSE c \in DOMAIN catalog : catalog[c].id = id

NullAwaySubtypes ==
  {"nullaway_param_nullable", "nullaway_field_assignment", "nullaway_return_nullable",
   "nullaway_deref_nullable"}

\* every pattern of a NullAway subtype contains the text [NullAway], which is
\* the pattern of nullability_error: a message that matches the one matches
\* the other
Implied(errorMessage) ==
  errorMessage \cup
  (IF \E p \in errorMessage : BUILD_ERROR_CATEGORIES[p[1]].id \in NullAwaySubtypes
   THEN {<<IndexOf(BUILD_ERROR_CATEGORIES, "nullability_error"), 1>>}
   ELSE {})

\* the nested loops: the categories from c on in catalog order, and for each
\* its patterns; the first category with a matching pattern, else null
RECURSIVE firstCategory(_, _, _)
firstCategory(catalog, c, errorMessage) ==
  IF c > Len(catalog) THEN "null"
  ELSE IF \E k \in 1..catalog[c].patterns : test(<<c, k>>, errorMessage)
       THEN catalog[c].id
       ELSE firstCategory(catalog, c + 1, errorMessage)

RECURSIVE lastCategory(_, _, _)
lastCategory(catalog, c, errorMessage) ==
  IF c < 1 THEN "null"
  ELSE IF \E k \in 1..catalog[c].patterns : test(<<c, k>>, errorMessage)
       THEN catalog[c].id
       ELSE lastCategory(catalog, c - 1, errorMessage)

categorizeError_last(errorMessage) ==
  lastCategory(BUILD_ERROR_CATEGORIES, Len(BUILD_ERROR_CATEGORIES), errorMessage)

categorizeError(errorMessage) == firstCategory(BUILD_ERROR_CATEGORIES, 1, errorMessage)

categorizeAssignmentError(errorMessage) ==
  firstCategory(ASSIGNMENT_ERROR_CATEGORIES, 1, errorMessage)

Range(f) == {f[x] : x \in DOMAIN f}

\* the messages: those that match up to MaxMatches patterns of the catalog
Messages(catalog) == {Range(ps) : ps \in SeqsUpTo(PatternsOf(catalog), MaxMatches)}

BuildMessages == {Implied(m) : m \in Messages(BUILD_ERROR_CATEGORIES)}
AssignmentMessages == Messages(ASSIGNMENT_ERROR_CATEGORIES)

Apply_categorizeError ==
  /\ call.fn = "categorizeError"
  /\ ret.kind = "none"
  /\ ret' = Returns(categorizeError(call.arg))
  /\ UNCHANGED <<call, sent, processorVars, ledgerVars>>

Apply_categorizeAssignmentError ==
  /\ call.fn = "categorizeAssignmentError"
  /\ ret.kind = "none"
  /\ ret' = Returns(categorizeAssignmentError(call.arg))
  /\ UNCHANGED <<call, sent, processorVars, ledgerVars>>

(***************************************************************************)
(* getStatePath as a function of any two names.  A name is made of the     *)
(* letter a, the slash, and the run "_p-" that the template of line 156    *)
(* puts between the two segments; encodeURIComponent leaves the letters,   *)
(* "_" and "-" alone.                                                      *)
(***************************************************************************)
NamePieces == {"a", "/", "_p-"}

NameChoices == SeqsUpTo(NamePieces, MaxSegments) \ {<<>>}

\* the (model, promptVariation) pairs
NamePairs == NameChoices \X NameChoices

Apply_getStatePath ==
  /\ call.fn = "getStatePath"
  /\ ret.kind = "none"
  /\ ret' = Returns(<<getStatePath(call.arg[1], call.arg[2])>>)
  /\ UNCHANGED <<call, sent, processorVars, ledgerVars>>

(***************************************************************************)
(* OpenRouterModelClient.process, one step per chat.send: the answer to a  *)
(* request arrives and process runs on to its next request or to its end.  *)
(***************************************************************************)
Throws(error) == [kind |-> "thrown", value |-> error]

\* the answer put in a script for a request that was not sent
Unsent == Content("valid")

PrimariesSent == Cardinality({k \in DOMAIN sent : sent[k].request = "primary"})

RepairsSent == Cardinality({k \in DOMAIN sent : sent[k].request = "repair"})

\* line 478 is reached with the answer to the primary request sent last
AwaitingRepair ==
  /\ sent # <<>>
  /\ sent[Len(sent)].request = "primary"
  /\ sent[Len(sent)].response.kind = "invalid"

\* lines 503-531 for iteration attempt of the loop of line 488: a content
\* returns, an error leaves process, and undefined goes on to the next
\* iteration or, after the last one, to the sentinel
afterAttempt(result, attempt) ==
  IF result.kind = "undefined"
  THEN (IF attempt + 1 < MaxPrimaryAttempts THEN NoReturn ELSE Returns(Returned(Sentinel)))
  ELSE IF result.kind = "error" THEN Throws(result)
  ELSE Returns(result)

\* the chat.send of line 489 settles
PrimarySettles ==
  /\ call.fn = "process"
  /\ ret.kind = "none"
  /\ ~AwaitingRepair
  /\ PrimariesSent < MaxPrimaryAttempts
  /\ \E response \in SdkResponses :
       /\ sent' = Append(sent, [request |-> "primary", response |-> response])
       /\ ret' = IF response.kind = "invalid" THEN ret
                 ELSE afterAttempt(primaryAttempt(response, Unsent), PrimariesSent)
  /\ UNCHANGED <<call, processorVars, ledgerVars>>

\* the chat.send of line 385 settles
RepairSettles ==
  /\ call.fn = "process"
  /\ ret.kind = "none"
  /\ AwaitingRepair
  /\ \E repairResponse \in SdkResponses :
       /\ sent' = Append(sent, [request |-> "repair", response |-> repairResponse])
       /\ ret' = afterAttempt(primaryAttempt(sent[Len(sent)].response, repairResponse),
                              PrimariesSent - 1)
  /\ UNCHANGED <<call, processorVars, ledgerVars>>

(***************************************************************************)
(* The calls of the text functions                                         *)
(***************************************************************************)
TextCalls ==
  {Calling("extractAssignmentCore", t) : t \in CoreInputs}
  \cup {Calling("normalizeAssignmentError", t) : t \in NormalizeInputs}
  \cup {Calling("extractNormalizedAssertion", t) : t \in AssertionInputs}
  \cup {Calling("categorizeError", m) : m \in BuildMessages}
  \cup {Calling("categorizeAssignmentError", m) : m \in AssignmentMessages}
  \cup {Calling("getStatePath", mp) : mp \in NamePairs}
  \cup {Calling("process", <<>>)}

TextInit ==
  /\ ProcessorIdle
  /\ LedgerIdle
  /\ call \in TextCalls
  /\ ret = NoReturn
  /\ sent = <<>>

TextNext ==
  \/ Apply_extractAssignmentCore
  \/ Apply_normalizeAssignmentError
  \/ Apply_extractNormalizedAssertion
  \/ Apply_categorizeError
  \/ Apply_categorizeAssignmentError
  \/ Apply_getStatePath
  \/ PrimarySettles
  \/ RepairSettles

TextSpec == TextInit /\ [][TextNext]_vars

(***************************************************************************)
(* C30.  A call of process sends at most 2 primary and at most 2 repair    *)
(* requests.  When it returns, its content is the JSON text of an object   *)
(* that isValidFeedBotPayload accepts, found in or extracted from the      *)
(* answer that came last, or it is the sentinel; and it is the sentinel    *)
(* only when 2 primary requests were sent and neither their answers nor    *)
(* the answers to their repair requests gave such an object.  What the     *)
(* call returns or throws is what the function process gives for the       *)
(* answers received.                                                       *)
(***************************************************************************)
\* the script of the answers received, in the order primary 1, repair 1,
\* primary 2, repair 2
ScriptOf(requests) ==
  LET primaries == {k \in DOMAIN requests : requests[k].request = "primary"}
      Nth(n) == CHOOSE k \in primaries :
                  Cardinality({j \in primaries : j <= k}) = n
  IN [p \in 1..(2 * MaxPrimaryAttempts) |->
        LET n == (p + 1) \div 2
        IN IF Cardinality(primaries) < n THEN Unsent
           ELSE IF p % 2 = 1 THEN requests[Nth(n)].response
           ELSE IF Nth(n) + 1 \in DOMAIN requests /\ requests[Nth(n) + 1].request = "repair"
                THEN requests[Nth(n) + 1].response
                ELSE Unsent]

C30_ProcessReturns ==
  call.fn = "process"
    => /\ PrimariesSent <= 2
       /\ RepairsSent <= 2
       /\ ret.kind \in {"none", "returned", "thrown"}
       /\ ret.kind = "returned" =>
            /\ ret.value.kind = "content"
            /\ ret.value.content \in {Payload, Sentinel}
            /\ ret.value.content = Payload =>
                 sent[Len(sent)].response.kind \in {"valid", "embedded"}
            /\ ret.value.content = Sentinel =>
                 /\ PrimariesSent = 2
                 /\ \A k \in DOMAIN sent :
                      /\ sent[k].response.kind \in {"empty", "invalid"}
                      /\ (sent[k].request = "primary" /\ sent[k].response.kind = "invalid")
                           => (k + 1 \in DOMAIN sent /\ sent[k + 1].request = "repair")
       /\ ret.kind \in {"returned", "thrown"} => ret.value = process(ScriptOf(sent))

\* the sentinel came back after two primary and two repair requests
C30_Witness ==
  /\ call.fn = "process"
  /\ ret = Returns(Returned(Sentinel))
  /\ PrimariesSent = 2
  /\ RepairsSent = 2
  /\ Len(sent) = 4

(***************************************************************************)
(* C23 as stated: getStatePath maps distinct (model, promptVariation)      *)
(* pairs to distinct paths: no other pair has the path returned for the    *)
(* pair of the call.                                                       *)
(***************************************************************************)
C23_Original ==
  (call.fn = "getStatePath" /\ ret.kind = "returned")
    => \A other \in NamePairs :
          other # call.arg => <<getStatePath(other[1], other[2])>> # ret.value

(***************************************************************************)
(* C17.  For every output, extractAssignmentCore returns, without          *)
(* throwing, a text of at most 30 lines, and the empty string gives the    *)
(* empty string.                                                           *)
(***************************************************************************)
C17_CoreBounded ==
  (call.fn = "extractAssignmentCore" /\ ret.kind # "none")
    => /\ ret.kind = "returned"
       /\ CountLines(ret.value) <= 30
       /\ call.arg = <<>> => ret.value = <<>>

\* a dependency block of more than thirty lines was cut to thirty
C17_Witness ==
  /\ call.fn = "extractAssignmentCore"
  /\ ret.kind = "returned"
  /\ CountLines(call.arg) > 2 * blockLimit
  /\ \E i \in DOMAIN call.arg : call.arg[i] = "dep"
  /\ CountLines(ret.value) = 30

\* the empty string went in and the empty string came out
C17_WitnessEmpty ==
  /\ call.fn = "extractAssignmentCore"
  /\ call.arg = <<>>
  /\ ret = Returns(<<>>)

(***************************************************************************)
(* C25.  extractAssignmentCore chooses by rule, not by position: when a    *)
(* line matches the dependency signal the block of the first such line is  *)
(* returned, whatever stands before it; otherwise, when a line matches the *)
(* mutation signal, the block of the first such line; otherwise, when a    *)
(* line matches the assertion signal, the window around the first such     *)
(* line; the fallback is returned only when no line matches a signal.      *)
(***************************************************************************)
HasLine(lines, kind) == \E i \in DOMAIN lines : lines[i] = kind

FirstLine(lines, kind) == Least({i \in DOMAIN lines : lines[i] = kind})

\* the first eight non-empty lines, trimmed
FirstEight(lines) ==
  LET kept == SelectSeq(lines, NonEmpty)
  IN join([k \in 1..Min(snippetLimit, Len(kept)) |-> trimLine(kept[k])])

\* the line before line i, line i and the five lines after it, trimmed, without
\* those that are empty then
AroundLine(lines, i) ==
  LET start == Max(1, i - 1)
      end == Min(Len(lines), i + 5)
  IN join(SelectSeq([k \in 1..(end - start + 1) |-> trimLine(lines[start + k - 1])],
                    NonEmpty))

C25_RulePriority ==
  (call.fn = "extractAssignmentCore" /\ ret.kind = "returned")
    => LET lines == split(call.arg)
       IN /\ HasLine(lines, "dep") =>
               /\ ret.value = block(lines, FirstLine(lines, "dep"))
               /\ Head(ret.value) = "dep"
          /\ (~HasLine(lines, "dep") /\ HasLine(lines, "mut")) =>
               /\ ret.value = block(lines, FirstLine(lines, "mut"))
               /\ Head(ret.value) = "mut"
          /\ (~HasLine(lines, "dep") /\ ~HasLine(lines, "mut") /\ HasLine(lines, "assert")) =>
               /\ ret.value = AroundLine(lines, FirstLine(lines, "assert"))
               /\ \E k \in DOMAIN ret.value : ret.value[k] = "assert"
          /\ (\A i \in DOMAIN lines : lines[i] \notin Signals) =>
               ret.value = FirstEight(lines)

\* an assertion line and a mutation line stand before the dependency line,
\* and the dependency block is returned
C25_Witness ==
  /\ call.fn = "extractAssignmentCore"
  /\ call.arg = <<"assert", "\n", "mut", "\n", "dep">>
  /\ ret = Returns(<<"dep">>)

(***************************************************************************)
(* C26 as stated: when no line matches a signal, extractAssignmentCore     *)
(* returns the first eight lines that are neither empty nor white space    *)
(* only.                                                                   *)
(***************************************************************************)
NonBlank(line) == line \notin {"", "blank"}

C26_Original ==
  ( /\ call.fn = "extractAssignmentCore"
    /\ ret.kind = "returned"
    /\ \A i \in DOMAIN split(call.arg) : split(call.arg)[i] \notin Signals )
    => LET kept == SelectSeq(split(call.arg), NonBlank)
       IN ret.value = join(SubSeq(kept, 1, Min(snippetLimit, Len(kept))))

(***************************************************************************)
(* C15 as stated: normalizeAssignmentError is idempotent: normalizing what *)
(* it returned returns the same text.                                      *)
(***************************************************************************)
C15_Original ==
  (call.fn = "normalizeAssignmentError" /\ ret.kind = "returned")
    => normalizeAssignmentError(ret.value) = ret.value

(***************************************************************************)
(* C16 as stated: extractNormalizedAssertion returns for                   *)
(* "expected:<2.0> but was:<2.5>" the snippet it returns for               *)
(* "expected:<2.00> but was:<2.50>", so that the two records get the same  *)
(* discriminant.                                                           *)
(***************************************************************************)
C16_Original ==
  (/\ call.fn = "extractNormalizedAssertion"
   /\ call.arg = snippet(<<"2", ".", "0">>, <<"2", ".", "5">>)
   /\ ret.kind = "returned")
    => ret.value = extractNormalizedAssertion(
                     snippet(<<"2", ".", "0", "0">>, <<"2", ".", "5", "0">>))

(***************************************************************************)
(* C14.  categorizeError and categorizeAssignmentError return the category *)
(* of lowest catalog index that has a matching pattern, and null exactly   *)
(* when no pattern matches; a message that matches a NullAway subtype      *)
(* pattern and the catch-all [NullAway] pattern is never classified as     *)
(* nullability_error, and is classified as the subtype unless a category   *)
(* before the subtype matches too.                                         *)
(***************************************************************************)
CatalogOf(fn) ==
  IF fn = "categorizeError" THEN BUILD_ERROR_CATEGORIES ELSE ASSIGNMENT_ERROR_CATEGORIES

Matching(catalog, errorMessage) ==
  {c \in DOMAIN catalog : \E p \in errorMessage : p[1] = c}

C14_FirstMatch ==
  (call.fn \in {"categorizeError", "categorizeAssignmentError"} /\ ret.kind = "returned")
    => LET catalog == CatalogOf(call.fn)
           matching == Matching(catalog, call.arg)
           subtypes == {c \in matching : catalog[c].id \in NullAwaySubtypes}
       IN /\ ret.value = "null" <=> matching = {}
          /\ matching # {} => ret.value = catalog[Least(matching)].id
          /\ (call.fn = "categorizeError" /\ subtypes # {})
               => /\ IndexOf(catalog, "nullability_error") \in matching
                  /\ ret.value # "nullability_error"
                  /\ Least(matching) \in subtypes
                       => ret.value = catalog[Least(subtypes)].id

\* a message with a NullAway dereference error, which the catch-all matches
\* too, was classified as nullaway_deref_nullable
C14_Witness ==
  /\ call.fn = "categorizeError"
  /\ call.arg = {<<IndexOf(BUILD_ERROR_CATEGORIES, "nullaway_deref_nullable"), 1>>,
                 <<IndexOf(BUILD_ERROR_CATEGORIES, "nullability_error"), 1>>}
  /\ ret = Returns("nullaway_deref_nullable")

(***************************************************************************)
(* The groupers.  The output text of a record is a text of whole lines.    *)
(* In an assignment record a "dep" line reads "Dependencies Not Met", a    *)
(* "mut" line "Mutation testing: All mutants survived" and an "assert"     *)
(* line "AssertionError"; in a build record a "wrong" line reads           *)
(* "* What went wrong:", a "try" line "* Try:", a "failing" line "There    *)
(* were failing tests", a "java" line "UnsupportedClassVersionError" and a *)
(* "noise" line "Beginning grading".  A "plain" line has nothing that a    *)
(* pattern or a rule of the normalizers knows.                             *)
(***************************************************************************)
\* a || b on strings
OrElse(a, b) == IF a # <<>> THEN a ELSE b

\* assignmentGroupErrors.ts lines 129-138
getOutputText(record) == OrElse(record.output, OrElse(record.test_output, <<>>))

\* buildErrorCategories.ts lines 310-319
getBuildOutputText(record) == OrElse(record.output, OrElse(record.build_output, <<>>))

\* the patterns of ASSIGNMENT_ERROR_CATEGORIES that match a text
assignmentMessage(text) ==
  {p \in PatternsOf(ASSIGNMENT_ERROR_CATEGORIES) :
     \E i \in DOMAIN text :
        \/ text[i] = "dep"
           /\ p = <<IndexOf(ASSIGNMENT_ERROR_CATEGORIES, "dependency_not_met"), 1>>
        \/ text[i] = "mut"
           /\ p = <<IndexOf(ASSIGNMENT_ERROR_CATEGORIES, "mutation_testing_zero_faults"), 3>>
        \/ text[i] = "assert"
           /\ p = <<IndexOf(ASSIGNMENT_ERROR_CATEGORIES, "test_failure"), 2>>}

\* the patterns of BUILD_ERROR_CATEGORIES that match a text
buildMessage(text) ==
  {p \in PatternsOf(BUILD_ERROR_CATEGORIES) :
     \E i \in DOMAIN text :
        \/ text[i] = "java"
           /\ p = <<IndexOf(BUILD_ERROR_CATEGORIES, "java_version_mismatch"), 5>>
        \/ text[i] = "failing"
           /\ p = <<IndexOf(BUILD_ERROR_CATEGORIES, "failing_tests"), 1>>}

\* assignmentGroupErrors.ts lines 13-17: no line of these records holds the
\* sentence "Your tests failed against the instructor's solution, and hence,
\* can not be graded"
isStudentTestFailure(errorMsg) == \E i \in DOMAIN errorMsg : errorMsg[i] = "instructor"

\* the hash of a key, as far as grouping can tell: equal keys give equal
\* fingerprints; different keys give different ones unless the hash collides
hashOf(combined, collisions) == IF collisions THEN <<"#">> ELSE <<"#">> \o combined

\* extractBuildErrors.ts lines 88-99
createFingerprint(normalized, categoryId, collisions) ==
  hashOf(<<categoryId, ":">> \o normalized, collisions)

computeFingerprintFromCanonicalKey(canonicalKey, collisions) ==
  hashOf(canonicalKey, collisions)

countOccurrence_once(group) == [group EXCEPT !.occurrences = 1]

\* grp.occurrences++
countOccurrence(group) == [group EXCEPT !.occurrences = @ + 1]

\* if (!groups.has(fingerprint)) groups.set(fingerprint, fresh);
\* groups.get(fingerprint).occurrences++, the groups in order of insertion
addToGroup(groups, fresh) ==
  LET known == {g \in DOMAIN groups : groups[g].fingerprint = fresh.fingerprint}
      held2 == IF known = {} THEN Append(groups, fresh) ELSE groups
      g == CHOOSE k \in DOMAIN held2 : held2[k].fingerprint = fresh.fingerprint
  IN [held2 EXCEPT ![g] = countOccurrence(@)]

\* A Map<string, number> is the sequence of its <<key, count>> entries in the
\* order of insertion.
\* counts.set(key, (counts.get(key) || 0) + 1): a key that is there keeps its
\* place
countKey(counts, key) ==
  IF \E k \in DOMAIN counts : counts[k][1] = key
  THEN [k \in DOMAIN counts |->
          IF counts[k][1] = key THEN <<key, counts[k][2] + 1>> ELSE counts[k]]
  ELSE Append(counts, <<key, 1>>)

beats_orEqual(val, max) == val >= max

\* line 144: val > max
beats(val, max) == val > max

\* the loop of lines 143-148 from the entries still to come
RECURSIVE modeFrom(_, _, _)
modeFrom(counts, best, max) ==
  IF counts = <<>> THEN best
  ELSE IF beats(Head(counts)[2], max)
       THEN modeFrom(Tail(counts), Head(counts)[1], Head(counts)[2])
       ELSE modeFrom(Tail(counts), best, max)

\* assignmentGroupErrors.ts lines 140-150
getModeValue(counts) == modeFrom(counts, "", 0)

\* line 184: (record.name || "Unknown Test").trim(), for names without white
\* space around them
testNameOf(name) == IF name # "" THEN name ELSE "Unknown Test"

\* lines 226-230, for the group of the record
countTestName(groups, fingerprint, testName) ==
  [g \in DOMAIN groups |->
     IF groups[g].fingerprint = fingerprint
     THEN [groups[g] EXCEPT !.testNameCounts = countKey(@, testName)]
     ELSE groups[g]]

\* lines 199-230: the record enters its group
enterGroup(groups, fresh, testName) ==
  countTestName(addToGroup(groups, fresh), fresh.fingerprint, testName)

\* a || b on categories
orCategory(a, b) == IF a # "null" THEN a ELSE b

\* a group that no record has entered yet
newGroup(canonicalKey, fingerprint, categoryId, normalized) ==
  [fingerprint |-> fingerprint,
   canonicalKey |-> canonicalKey,
   categoryId |-> categoryId,
   normalizedMessage |-> normalized,
   occurrences |-> 0]

\* assignmentGroupErrors.ts lines 171-183
assignmentCategoryId(found, core) ==
  IF found = "test_failure"
  THEN (IF isStudentTestFailure(core) THEN "student_test_failure"
        ELSE "instructor_test_failure")
  ELSE IF found = "null" THEN "unknown" ELSE found

\* lines 184-196: (record.name || "Unknown Test") and the canonical key
assignmentCanonicalKey_withName(categoryId, name, core, normalized) ==
  <<categoryId, "::", testNameOf(name), "::">> \o normalized

assignmentCanonicalKey(categoryId, name, core, normalized) ==
  IF categoryId \in {"student_test_failure", "instructor_test_failure"}
  THEN <<categoryId, "::">> \o extractNormalizedAssertion(core)
  ELSE <<categoryId, "::", testNameOf(name), "::">> \o normalized

\* lines 197-213
assignmentGroupOfKey(canonicalKey, categoryId, normalized, collisions) ==
  newGroup(canonicalKey, computeFingerprintFromCanonicalKey(canonicalKey, collisions),
           categoryId, normalized)
  @@ [testNameCounts |-> <<>>]

\* lines 186-196
assignmentGroupOfCategory(name, core, normalized, categoryId, collisions) ==
  assignmentGroupOfKey(assignmentCanonicalKey(categoryId, name, core, normalized),
                       categoryId, normalized, collisions)

\* lines 167-183
assignmentGroupOfNormalized(name, core, normalized, collisions) ==
  assignmentGroupOfCategory(
    name, core, normalized,
    assignmentCategoryId(
      orCategory(categorizeAssignmentError(assignmentMessage(core)),
                 categorizeAssignmentError(assignmentMessage(normalized))),
      core),
    collisions)

\* line 166
assignmentGroupOfCore(name, core, collisions) ==
  assignmentGroupOfNormalized(name, core, normalizeAssignmentError(core), collisions)

\* assignmentGroupErrors.ts lines 163-213 for one record with output text
assignmentGroupOf(record, collisions) ==
  assignmentGroupOfCore(record.name, extractAssignmentCore(getOutputText(record)),
                        collisions)

\* the loop of lines 162-231
RECURSIVE assignmentGroups(_, _)
assignmentGroups(records, collisions) ==
  IF records = <<>> THEN <<>>
  ELSE LET before == assignmentGroups(SubSeq(records, 1, Len(records) - 1), collisions)
           record == records[Len(records)]
       IN IF getOutputText(record) = <<>> THEN before
          ELSE enterGroup(before, assignmentGroupOf(record, collisions),
                          testNameOf(record.name))

buildAssignmentLLMRows(records, collisions) ==
  LET groups == assignmentGroups(records, collisions)
  IN [g \in DOMAIN groups |->
        [testName |-> getModeValue(groups[g].testNameCounts),
         count |-> groups[g].occurrences,
         fingerprint |-> groups[g].fingerprint,
         canonicalKey |-> groups[g].canonicalKey]]

\* extractBuildErrors.ts line 10, 28
coreLimit == 6

\* extractBuildErrors.ts lines 8-16: the lines after a "* What went wrong:"
\* line, up to an empty line or "* Try:", blank lines left out
RECURSIVE wrongLines(_, _, _)
wrongLines(lines, j, end) ==
  IF j > end \/ lines[j] \in {"", "try"} THEN <<>>
  ELSE (IF trimLine(lines[j]) # "" THEN <<lines[j]>> ELSE <<>>)
       \o wrongLines(lines, j + 1, end)

\* lines 26-35: the lines after a failing tests line, up to a blank line
RECURSIVE failingLines(_, _, _)
failingLines(lines, j, end) ==
  IF j > end \/ lines[j] \in {"", "blank"} THEN <<>>
  ELSE <<trimLine(lines[j])>> \o failingLines(lines, j + 1, end)

NotNoise(line) == line # "noise"

\* extractBuildErrors.ts lines 2-50; the texts here have fewer than 300
\* characters
extractCoreError(output) ==
  LET lines == split(output)
      n == Len(lines)
      wrongs == {i \in 1..n : lines[i] = "wrong"}
      failings == {i \in 1..n : lines[i] = "failing"}
  IN IF wrongs # {}
     THEN LET i == Least(wrongs)
          IN trim(join(<<lines[i]>> \o wrongLines(lines, i + 1, Min(i + coreLimit - 1, n))))
     ELSE IF failings # {}
     THEN LET i == Least(failings)
          IN trim(join(<<trimLine(lines[i])>>
                       \o failingLines(lines, i + 1, Min(i + coreLimit - 1, n))))
     ELSE trim(join(SelectSeq(lines, NotNoise)))

\* extractBuildErrors.ts lines 53-85: of the rules only the last, on white
\* space, finds something in these lines
normalizeError(errorMsg) == trim(collapseSpaces(errorMsg))

\* buildErrorCategories.ts lines 335-357: a Java version mismatch anywhere in
\* the raw output
javaMismatchRaw(rawOutput) == \E i \in DOMAIN rawOutput : rawOutput[i] = "java"

\* lines 361-377
buildGroupOfCategory(normalized, found, collisions) ==
  newGroup(<<>>,
           createFingerprint(normalized, IF found = "null" THEN "unknown" ELSE found,
                             collisions),
           IF found = "null" THEN "unknown" ELSE found, normalized)

\* lines 334-360
buildGroupOfNormalized(rawOutput, coreError, normalized, collisions) ==
  buildGroupOfCategory(
    normalized,
    orCategory(categorizeError(Implied(buildMessage(coreError))),
               IF javaMismatchRaw(rawOutput) THEN "java_version_mismatch"
               ELSE categorizeError(Implied(buildMessage(normalized)))),
    collisions)

\* line 331
buildGroupOfCore(rawOutput, coreError, collisions) ==
  buildGroupOfNormalized(rawOutput, coreError, normalizeError(coreError), collisions)

\* line 329
buildGroupOfRaw(rawOutput, collisions) ==
  buildGroupOfCore(rawOutput, extractCoreError(rawOutput), collisions)

\* buildErrorCategories.ts lines 323-377 for one record with output text
buildGroupOf(record, collisions) ==
  buildGroupOfRaw(getBuildOutputText(record), collisions)

\* the loop of lines 321-390
RECURSIVE buildGroups(_, _)
buildGroups(records, collisions) ==
  IF records = <<>> THEN <<>>
  ELSE LET before == buildGroups(SubSeq(records, 1, Len(records) - 1), collisions)
           record == records[Len(records)]
       IN IF getBuildOutputText(record) = <<>> THEN before
          ELSE addToGroup(before, buildGroupOf(record, collisions))

\* grouped.sort((a, b) => b.occurrence_count - a.occurrence_count): a stable
\* sort, the larger counts first
RECURSIVE sortByCount(_)
sortByCount(grouped) ==
  IF grouped = <<>> THEN <<>>
  ELSE LET sorted == sortByCount(SubSeq(grouped, 1, Len(grouped) - 1))
           last == grouped[Len(grouped)]
           ahead == {k \in DOMAIN sorted : sorted[k].occurrence_count >= last.occurrence_count}
           at == IF ahead = {} THEN 0 ELSE CHOOSE k \in ahead : \A j \in ahead : j <= k
       IN SubSeq(sorted, 1, at) \o <<last>> \o SubSeq(sorted, at + 1, Len(sorted))

groupBuildErrors(records, collisions) ==
  LET groups == buildGroups(records, collisions)
      grouped == sortByCount([g \in DOMAIN groups |->
                   [error_id |-> 0,
                    error_category |-> groups[g].categoryId,
                    normalized_message |-> groups[g].normalizedMessage,
                    occurrence_count |-> groups[g].occurrences]])
  IN [g \in DOMAIN grouped |-> [grouped[g] EXCEPT !.error_id = g]]

\* the records of the two CSV files
AssignmentOutputs ==
  {<<>>, <<"blank">>, <<"plain">>, <<"dep">>, <<"assert">>,
   <<"instructor", "\n", "assert">>}

\* the records with a test_output are those without a name
AssignmentRecords ==
  { r \in [output : AssignmentOutputs, test_output : {<<>>, <<"plain">>},
           name : {"", "t1", "t2"}] :
      r.test_output # <<>> => r.name = "" }

\* the maps given to getModeValue: up to MaxRecords keys, each counted once or
\* more
TestNames == {"t1", "t2", "t3", "Unknown Test"}

CountMaps ==
  { m \in SeqsUpTo(TestNames \X (1..MaxRecords), MaxRecords) :
      \A j, k \in DOMAIN m : j # k => m[j][1] # m[k][1] }

BuildOutputs ==
  {<<>>, <<"blank">>, <<"plain">>, <<"failing">>, <<"java">>,
   <<"wrong", "\n", "try", "\n", "java">>, <<"noise", "\n", "plain">>}

BuildRecords == [output : BuildOutputs, build_output : {<<>>, <<"plain">>}]

GroupCalls ==
  {Calling("buildAssignmentLLMRows", [records |-> rs, collisions |-> c]) :
     rs \in SeqsUpTo(AssignmentRecords, MaxRecords), c \in BOOLEAN}
  \cup {Calling("groupBuildErrors", [records |-> rs, collisions |-> c]) :
          rs \in SeqsUpTo(BuildRecords, MaxRecords), c \in BOOLEAN}
  \cup {Calling("getModeValue", m) : m \in CountMaps}

Apply_buildAssignmentLLMRows ==
  /\ call.fn = "buildAssignmentLLMRows"
  /\ ret.kind = "none"
  /\ ret' = Returns(buildAssignmentLLMRows(call.arg.records, call.arg.collisions))
  /\ UNCHANGED <<call, sent, processorVars, ledgerVars>>

Apply_groupBuildErrors ==
  /\ call.fn = "groupBuildErrors"
  /\ ret.kind = "none"
  /\ ret' = Returns(groupBuildErrors(call.arg.records, call.arg.collisions))
  /\ UNCHANGED <<call, sent, processorVars, ledgerVars>>

Apply_getModeValue ==
  /\ call.fn = "getModeValue"
  /\ ret.kind = "none"
  /\ ret' = Returns(getModeValue(call.arg))
  /\ UNCHANGED <<call, sent, processorVars, ledgerVars>>

GroupInit ==
  /\ ProcessorIdle
  /\ LedgerIdle
  /\ call \in GroupCalls
  /\ ret = NoReturn
  /\ sent = <<>>

GroupNext ==
  \/ Apply_buildAssignmentLLMRows
  \/ Apply_groupBuildErrors
  \/ Apply_getModeValue

GroupSpec == GroupInit /\ [][GroupNext]_vars

(***************************************************************************)
(* C13.  The occurrence counts of the groups that a grouper returns add up *)
(* to the number of records whose output text is not empty; a record       *)
(* without output text enters no group and adds to no count: the grouper   *)
(* returns what it returns without that record.                            *)
(***************************************************************************)
HasOutputText(record) ==
  IF "build_output" \in DOMAIN record
  THEN getBuildOutputText(record) # <<>>
  ELSE getOutputText(record) # <<>>

RECURSIVE SumCounts(_)
SumCounts(groups) ==
  IF groups = <<>> THEN 0
  ELSE (IF "count" \in DOMAIN Head(groups) THEN Head(groups).count
        ELSE Head(groups).occurrence_count)
       + SumCounts(Tail(groups))

C13_CountsAddUp ==
  (call.fn \in {"buildAssignmentLLMRows", "groupBuildErrors"} /\ ret.kind = "returned")
    => LET records == call.arg.records
           withText == SelectSeq(records, HasOutputText)
       IN /\ SumCounts(ret.value) = Len(withText)
          /\ ret.value = IF call.fn = "groupBuildErrors"
                         THEN groupBuildErrors(withText, call.arg.collisions)
                         ELSE buildAssignmentLLMRows(withText, call.arg.collisions)

\* of three records one had no output text and the two others, a dependency
\* failure of the same test twice, made one group of count 2
C13_Witness ==
  /\ call.fn = "buildAssignmentLLMRows"
  /\ ret.kind = "returned"
  /\ ~call.arg.collisions
  /\ Len(call.arg.records) = 3
  /\ ~HasOutputText(call.arg.records[2])
  /\ call.arg.records[1].output = <<"dep">>
  /\ call.arg.records[3] = call.arg.records[1]
  /\ Len(ret.value) = 1
  /\ ret.value[1].count = 2

(***************************************************************************)
(* C27.  getModeValue returns a key of the highest count of the map; of    *)
(* several keys with the highest count it returns the one inserted first;  *)
(* and it returns the empty string exactly for the empty map.              *)
(***************************************************************************)
C27_ModeValue ==
  (call.fn = "getModeValue" /\ ret.kind = "returned")
    => LET counts == call.arg
       IN /\ ret.value = "" <=> counts = <<>>
          /\ counts # <<>> =>
                \E k \in DOMAIN counts :
                   /\ counts[k][1] = ret.value
                   /\ \A j \in DOMAIN counts : counts[j][2] <= counts[k][2]
                   /\ \A j \in 1..(k - 1) : counts[j][2] < counts[k][2]

\* three keys, the second and the third with the highest count: the second
\* is returned
C27_Witness ==
  /\ call.fn = "getModeValue"
  /\ call.arg = << <<"t1", 1>>, <<"t2", 2>>, <<"t3", 2>> >>
  /\ ret = Returns("t2")

(***************************************************************************)
(* C28.  A record categorized student_test_failure or                      *)
(* instructor_test_failure has the canonical key                           *)
(* categoryId::normalizedAssertion, which holds no test name; unless       *)
(* fingerprints collide, the records of one such category and one          *)
(* normalized assertion make exactly one group, whatever their test names, *)
(* its count is their number, and its test name is the name most of them   *)
(* have, the one seen first among several such names.                      *)
(***************************************************************************)
CoreOf(record) == extractAssignmentCore(getOutputText(record))

CategoryOf(record) ==
  assignmentCategoryId(
    orCategory(categorizeAssignmentError(assignmentMessage(CoreOf(record))),
               categorizeAssignmentError(
                 assignmentMessage(normalizeAssignmentError(CoreOf(record))))),
    CoreOf(record))

IsTestFailure(record) ==
  CategoryOf(record) \in {"student_test_failure", "instructor_test_failure"}

AssertionKey(record) ==
  <<CategoryOf(record), "::">> \o extractNormalizedAssertion(CoreOf(record))

\* the name most of the records at the indices in S have, the one seen first
\* among several such names
MostSeenName(records, S) ==
  LET names == {testNameOf(records[j].name) : j \in S}
      Seen(n) == {j \in S : testNameOf(records[j].name) = n}
  IN CHOOSE n \in names :
       \A m \in names :
          \/ Cardinality(Seen(m)) < Cardinality(Seen(n))
          \/ Cardinality(Seen(m)) = Cardinality(Seen(n)) /\ Least(Seen(n)) <= Least(Seen(m))

C28_GroupedByAssertion ==
  (call.fn = "buildAssignmentLLMRows" /\ ret.kind = "returned" /\ ~call.arg.collisions)
    => LET records == SelectSeq(call.arg.records, HasOutputText)
       IN \A i \in DOMAIN records :
            IsTestFailure(records[i]) =>
              LET same == {j \in DOMAIN records :
                             /\ IsTestFailure(records[j])
                             /\ AssertionKey(records[j]) = AssertionKey(records[i])}
                  found == {g \in DOMAIN ret.value :
                              ret.value[g].canonicalKey = AssertionKey(records[i])}
              IN /\ Cardinality(found) = 1
                 /\ \A g \in found :
                      /\ ret.value[g].count = Cardinality(same)
                      /\ ret.value[g].testName = MostSeenName(records, same)
                      /\ \A k \in DOMAIN ret.value[g].canonicalKey :
                            ret.value[g].canonicalKey[k] \notin {"t1", "t2", "Unknown Test"}

\* three records with the same assertion failure, of test t1 and twice of test
\* t2, made one group of count 3 that reports t2
C28_Witness ==
  /\ call.fn = "buildAssignmentLLMRows"
  /\ ret.kind = "returned"
  /\ ~call.arg.collisions
  /\ Len(call.arg.records) = 3
  /\ \A i \in 1..3 : call.arg.records[i].output = <<"assert">>
  /\ call.arg.records[1].name = "t1"
  /\ call.arg.records[2].name = "t2"
  /\ call.arg.records[3].name = "t2"
  /\ Len(ret.value) = 1
  /\ ret.value[1].count = 3
  /\ ret.value[1].testName = "t2"
  /\ ret.value[1].canonicalKey = <<"instructor_test_failure", "::", "assert">>

=============================================================================
